---- MODULE Spec2Model ----
(***************************************************************************)
(* TokenManager (src/src/ui/utils/tokenManager.tsx): the token lifecycle   *)
(* coordinator.  One action per handler; a handler runs atomically up to   *)
(* its await, and each provider call completes in a later step.            *)
(* Focuser (src/unnamed/part_001): the document mouse handlers of the      *)
(* focus region editor, one action per DOM event.                          *)
(***************************************************************************)
EXTENDS Integers, Sequences, FiniteSets, TLC

VARIABLES
  auth0Client,      \* this.auth0Client: "undefined" or the context value
  deferredState,    \* this.deferredState: index of the live Deferred in deferreds
  deferreds,        \* every Deferred created so far, in creation order
  currentState,     \* this.currentState (NoState = undefined)
  isTokenRequested, \* this.isTokenRequested
  refreshTimeout,   \* this.refreshTimeout: NoHandle or a timer handle
  listeners,        \* this.listeners
  timers,           \* pending window.setTimeout refresh timers: [handle, delay]
  nextHandle,       \* next handle window.setTimeout returns
  pendingUpdates,   \* queued setTimeout(() => this.update(false), 0) tasks
  rounds,           \* update() activations suspended at an await
  cypress,          \* window.localStorage.getItem("__cypress")
  ev,               \* the handler that ran last, and the Deferred its round captured
  editMode,         \* Focuser prop editMode: NoEditMode (null) or an EditMode
  didDragRef,       \* didDragRef.current
  displayedFocusRegion, \* Focuser state displayedFocusRegion
  moved,            \* a mousemove with movementX # 0 was handled in this edit mode
  lastEvent         \* the DOM event handled last, and whether it was stopped

focuserVars == <<editMode, didDragRef, displayedFocusRegion, moved, lastEvent>>

vars == <<auth0Client, deferredState, deferreds, currentState, isTokenRequested,
          refreshTimeout, listeners, timers, nextHandle, pendingUpdates, rounds,
          cypress, ev, focuserVars>>

----------------------------------------------------------------------------
(* Bounds *)
MaxDeferreds == 2   \* Deferreds ever created (reset() allocates one)
MaxListeners == 2   \* length of this.listeners
MaxPending == 1     \* queued update(false) tasks
MaxCount == 2       \* resolve() / fetch calls are counted up to this
MaxTime == 4        \* the zoom region is 0..MaxTime

(* Program constants *)
tokenRefreshSecondsBeforeExpiry == 60

----------------------------------------------------------------------------
(* Values *)
Absent == "absent"
NoHandle == 0
NoError == "none"

\* TokenState; a field that is not set is Absent.  claims holds
\* claims.hasura.userId ("undefined" when the token carries no such claim).
TokenState(token, claims, error) ==
  [token |-> token, claims |-> claims, error |-> error]

NoState == TokenState("undefined", "undefined", "undefined")
EmptyState == TokenState(Absent, Absent, Absent)

\* Tokens the provider (or the cypress item) can hand out.
Tokens == {"tok_ok", "tok_noexp", "tok_nouid", "tok_bad"}

\* Errors a provider call can fail with (e.error).
ProviderErrors == {"login_required", "consent_required", "other_error"}

\* Date.now() readings (ms).
Nows == {0, 100000, 200000}

\* Listener callbacks.  Those in Throwing throw when invoked; those in
\* Leaving call removeListener on themselves.
Listeners == {"l1", "l2", "l3"}
Throwing == {"l2"}
Leaving == {"l3"}

\* The values the Auth0 context can take.
Auth0Client(isLoading, isAuthenticated) ==
  [isLoading |-> isLoading, isAuthenticated |-> isAuthenticated]
NoClient == [undefined |-> TRUE]
ClientValues == {Auth0Client(TRUE, FALSE), Auth0Client(FALSE, FALSE),
                 Auth0Client(FALSE, TRUE)}

----------------------------------------------------------------------------
(* Focuser values *)

\* EditMode: { type: "drag", dragOffset } | { type: "resize-end" } |
\* { type: "resize-start" }; null when no edit is in progress.
NoEditMode == [null |-> TRUE]
EditModeDrag(dragOffset) == [type |-> "drag", dragOffset |-> dragOffset]
EditModeResize(type) == [type |-> type]

\* dragOffset values setEditModeToMove computes
DragOffsets == {-1, 0, 1}

Region(beginTime, endTime) == [beginTime |-> beginTime, endTime |-> endTime]

\* selectors.getZoomRegion
zoomRegion == Region(0, MaxTime)

\* selectors.getFocusRegion: begin.time and end.time, within the zoom region.
\* Durations are even so that focusRegionDuration / 2 is a whole number.
FocusRegions ==
  {r \in [beginTime : 0..MaxTime, endTime : 0..MaxTime] :
     r.beginTime < r.endTime /\ (r.endTime - r.beginTime) % 2 = 0}

\* Times getTimeFromPosition can return for a mouse position
MouseTimes == 0..MaxTime

\* event.movementX
MovementXs == {-1, 0, 1}

\* A DOM event the document handlers saw, and whether stopEvent was called
DomEvent(type, stopped) == [type |-> type, stopped |-> stopped]

----------------------------------------------------------------------------
(* Library behaviour the class relies on *)

\* jwt_decode(token): the decoded payload, or a throw (decodes = FALSE).
\* exp is in seconds; userId is the "x-hasura-user-id" claim.
Payload(decodes, expIsNumber, exp, userId) ==
  [decodes |-> decodes, expIsNumber |-> expIsNumber, exp |-> exp, userId |-> userId]

jwt_decode(token) ==
  CASE token = "tok_ok"    -> Payload(TRUE, TRUE, 120, "user1")
    [] token = "tok_noexp" -> Payload(TRUE, FALSE, 0, "user1")
    [] token = "tok_nouid" -> Payload(TRUE, TRUE, 120, "undefined")
    [] OTHER               -> Payload(FALSE, FALSE, 0, "undefined")

\* Math.max
Max(a, b) == IF a >= b THEN a ELSE b

\* Counters of calls are kept up to MaxCount.
Bump(n) == IF n < MaxCount THEN n + 1 ELSE n

\* One call made by a handler, as logged in the machine's calls.
CallRec(fn, l, d, s, n) == [fn |-> fn, l |-> l, d |-> d, s |-> s, n |-> n]

Log(m, c) == [m EXCEPT !.calls = Append(@, c)]

\* defer<TokenState>(): a pending promise with its resolve function.
\* resolves counts the calls of resolve; fetches the fetchToken calls of
\* rounds that captured this Deferred.
defer == [value |-> NoState, resolves |-> 0, fetches |-> 0]

\* deferred.resolve(state): a promise keeps the first value it is resolved to.
Resolve(m, d, state) ==
  Log([m EXCEPT !.deferreds[d] =
         [@ EXCEPT !.resolves = Bump(@),
                   !.value = IF @ = NoState THEN state ELSE @]],
      CallRec("resolve", "", d, state, 0))

----------------------------------------------------------------------------
(* The methods, as functions of the machine m: the object's fields, the    *)
(* calls logged so far and the exception in flight (thrown).               *)

Machine ==
  [deferredState |-> deferredState, deferreds |-> deferreds,
   currentState |-> currentState, isTokenRequested |-> isTokenRequested,
   refreshTimeout |-> refreshTimeout, listeners |-> listeners,
   timers |-> timers, nextHandle |-> nextHandle, rounds |-> rounds,
   calls |-> <<>>, thrown |-> NoError]

\* this.listeners.indexOf(listener), 1-based; 0 when not found
RECURSIVE indexOfFrom(_, _, _)
indexOfFrom(s, l, i) ==
  IF i > Len(s) THEN 0
  ELSE IF s[i] = l THEN i ELSE indexOfFrom(s, l, i + 1)

indexOf(s, l) == indexOfFrom(s, l, 1)

\* s.splice(index, 1)
splice(s, index) == SubSeq(s, 1, index - 1) \o SubSeq(s, index + 1, Len(s))

removeListener(m, l) ==
  LET index == indexOf(m.listeners, l)
  IN IF index >= 1 THEN [m EXCEPT !.listeners = splice(@, index)] ELSE m

\* listener(state): the call, and what the callback does with the manager.
InvokeListener(m, l, state) ==
  LET m1 == Log(m, CallRec("listener", l, 0, state, 0))
  IN IF l \in Throwing THEN [m1 EXCEPT !.thrown = "ListenerError"]
     ELSE IF l \in Leaving THEN removeListener(m1, l)
     ELSE m1

\* this.listeners.forEach(listener => listener(state)), from index i on: the
\* indices below the length n the array had when forEach started are
\* visited, each if the array still has it.
RECURSIVE ForEach(_, _, _, _)
ForEach(m, i, n, state) ==
  IF i > n \/ i > Len(m.listeners) THEN m
  ELSE LET m1 == InvokeListener(m, m.listeners[i], state)
       IN IF m1.thrown # NoError THEN m1 ELSE ForEach(m1, i + 1, n, state)

setState(m, state, d) ==
  LET m1 == Log([m EXCEPT !.currentState = state],
                CallRec("setState", "", d, state, 0))
      m2 == ForEach(m1, 1, Len(m1.listeners), state)
  IN IF m2.thrown # NoError THEN m2 ELSE Resolve(m2, d, state)

\* reset that leaves the armed timer alone
reset_keepTimer(m) ==
  [m EXCEPT !.deferreds = Append(@, defer),
            !.deferredState = Len(m.deferreds) + 1,
            !.isTokenRequested = FALSE]

reset(m) ==
  LET m1 == [m EXCEPT !.deferreds = Append(@, defer),
                      !.deferredState = Len(m.deferreds) + 1,
                      !.isTokenRequested = FALSE]
  IN IF m1.refreshTimeout # NoHandle
     THEN Log([m1 EXCEPT !.timers = {t \in @ : t.handle # m1.refreshTimeout},
                         !.refreshTimeout = NoHandle],
              CallRec("clearTimeout", "", 0, NoState, m1.refreshTimeout))
     ELSE m1

\* refreshDelay without the clamp at 0
refreshDelay_noClamp(exp, now) ==
  (exp - tokenRefreshSecondsBeforeExpiry) * 1000 - now

\* Math.max((exp - tokenRefreshSecondsBeforeExpiry) * 1000 - Date.now(), 0)
refreshDelay(exp, now) ==
  Max((exp - tokenRefreshSecondsBeforeExpiry) * 1000 - now, 0)

setupTokenRefresh(m, token, now) ==
  LET decodedToken == jwt_decode(token)
  IN IF ~decodedToken.decodes THEN [m EXCEPT !.thrown = "InvalidTokenError"]
     ELSE IF ~decodedToken.expIsNumber THEN [m EXCEPT !.thrown = "AssertionFailure"]
     ELSE LET delay == refreshDelay(decodedToken.exp, now)
          IN Log([m EXCEPT !.timers = @ \cup {[handle |-> m.nextHandle, delay |-> delay]},
                           !.refreshTimeout = m.nextHandle,
                           !.nextHandle = @ + 1],
                 CallRec("setTimeout", "", 0, NoState, delay))

\* updateCatch that also clears isTokenRequested, so that the next
\* update(false) requests again
updateCatch_retry(m, d) ==
  IF m.thrown = NoError THEN m
  ELSE setState([m EXCEPT !.thrown = NoError, !.isTokenRequested = FALSE],
                TokenState(Absent, Absent, m.thrown), d)

\* catch (e) { this.setState({ error: e }, deferredState); } of update
updateCatch(m, d) ==
  IF m.thrown = NoError THEN m
  ELSE setState([m EXCEPT !.thrown = NoError],
                TokenState(Absent, Absent, m.thrown), d)

\* updateGotToken without the `deferredState === this.deferredState` test
updateGotToken_alwaysArm(m, token, d, now) ==
  LET decodedToken == jwt_decode(token)
  IN IF ~decodedToken.decodes THEN [m EXCEPT !.thrown = "InvalidTokenError"]
     ELSE LET m1 == setState(m, TokenState(token, decodedToken.userId, Absent), d)
          IN IF m1.thrown # NoError THEN m1
             ELSE setupTokenRefresh(m1, token, now)

\* update after fetchToken returned token: the rest of the try block
updateGotToken(m, token, d, now) ==
  LET decodedToken == jwt_decode(token)
  IN IF ~decodedToken.decodes THEN [m EXCEPT !.thrown = "InvalidTokenError"]
     ELSE LET m1 == setState(m, TokenState(token, decodedToken.userId, Absent), d)
          IN IF m1.thrown # NoError THEN m1
             ELSE IF d = m1.deferredState THEN setupTokenRefresh(m1, token, now)
             ELSE m1

\* update resumed with the outcome of fetchToken (a token, or e thrown)
updateResume(m, isToken, outcome, d, now) ==
  updateCatch(IF isToken THEN updateGotToken(m, outcome, d, now)
              ELSE [m EXCEPT !.thrown = outcome], d)

\* needsPopup with the consent_required test left out
needsPopup_loginOnly(e) == ~(e # "login_required")

\* fetchToken's catch: e.error is "login_required" or "consent_required"
needsPopup(e) == ~(e # "login_required" /\ e # "consent_required")

\* fetchToken resumed with e thrown by getAccessTokenSilently, by the round at
\* rounds[i]: getAccessTokenWithPopup is called
fetchTokenPopup(m, i) ==
  Log([m EXCEPT !.rounds[i].phase = "popup"],
      CallRec("getAccessTokenWithPopup", "", m.rounds[i].deferred, NoState,
              IF m.rounds[i].refresh THEN 1 ELSE 0))

\* fetchToken up to its first await: getAccessTokenSilently is called
fetchToken(m, refresh, d) ==
  Log([m EXCEPT !.rounds = Append(@, [deferred |-> d, refresh |-> refresh,
                                       phase |-> "silent"]),
                !.deferreds[d].fetches = Bump(@)],
      CallRec("getAccessTokenSilently", "", d, NoState, IF refresh THEN 1 ELSE 0))

\* update, the authenticated branch from `this.isTokenRequested = true` on
updateRequest(m, refresh) ==
  LET m1 == [m EXCEPT !.isTokenRequested = TRUE]
      d == m1.deferredState
  IN IF cypress # Absent
     THEN setState(m1, TokenState(cypress, Absent, Absent), d)
     ELSE fetchToken(m1, refresh, d)

\* update that returns early on isTokenRequested for no call: a second
\* update(false) requests again
update_noSingleFlight(m, refresh) ==
  IF auth0Client = NoClient \/ auth0Client.isLoading THEN m
  ELSE IF auth0Client.isAuthenticated
       THEN IF m.isTokenRequested /\ refresh
            THEN updateRequest(reset(m), refresh)
            ELSE updateRequest(m, refresh)
       ELSE setState(m, EmptyState, m.deferredState)

\* update whose refresh does not reset: the refresh round captures the
\* Deferred that was current before
update_noResetOnRefresh(m, refresh) ==
  IF auth0Client = NoClient \/ auth0Client.isLoading THEN m
  ELSE IF auth0Client.isAuthenticated
       THEN IF m.isTokenRequested
            THEN IF refresh THEN updateRequest(m, refresh) ELSE m
            ELSE updateRequest(m, refresh)
       ELSE setState(m, EmptyState, m.deferredState)

\* update(refresh) up to its first await
update(m, refresh) ==
  IF auth0Client = NoClient \/ auth0Client.isLoading THEN m
  ELSE IF auth0Client.isAuthenticated
       THEN IF m.isTokenRequested
            THEN IF refresh THEN updateRequest(reset(m), refresh) ELSE m
            ELSE updateRequest(m, refresh)
       ELSE setState(m, EmptyState, m.deferredState)

\* addListener that only registers the listener
addListener_noReplay(m, l) == [m EXCEPT !.listeners = Append(@, l)]

\* addListener(listener)
addListener(m, l) ==
  LET m1 == IF m.currentState # NoState THEN InvokeListener(m, l, m.currentState)
            ELSE m
  IN IF m1.thrown # NoError THEN m1
     ELSE [m1 EXCEPT !.listeners = Append(@, l)]

\* getToken(): what awaiting this.deferredState.promise yields (NoState: pending)
getToken == deferreds[deferredState].value

----------------------------------------------------------------------------
(* Actions *)

Range(s) == {s[i] : i \in 1..Len(s)}

\* s without its i-th element
Without(s, i) == SubSeq(s, 1, i - 1) \o SubSeq(s, i + 1, Len(s))

\* The fields of the object after a handler ran as m.
Install(m) ==
  /\ deferredState' = m.deferredState
  /\ deferreds' = m.deferreds
  /\ currentState' = m.currentState
  /\ isTokenRequested' = m.isTokenRequested
  /\ refreshTimeout' = m.refreshTimeout
  /\ listeners' = m.listeners
  /\ timers' = m.timers
  /\ nextHandle' = m.nextHandle
  /\ rounds' = m.rounds

\* A handler that ran as m allocated no Deferred beyond the bound.
WithinBounds(m) == Len(m.deferreds) <= MaxDeferreds

Event(op, d) == [op |-> op, round |-> d]

Init ==
  /\ auth0Client = NoClient
  /\ deferredState = 1
  /\ deferreds = <<defer>>
  /\ currentState = NoState
  /\ isTokenRequested = FALSE
  /\ refreshTimeout = NoHandle
  /\ listeners = <<>>
  /\ timers = {}
  /\ nextHandle = 1
  /\ pendingUpdates = 0
  /\ rounds = <<>>
  /\ cypress \in {Absent, "tok_ok"}
  /\ ev = Event("new", 0)
  /\ editMode = NoEditMode
  /\ didDragRef = FALSE
  /\ displayedFocusRegion = Region(zoomRegion.beginTime, zoomRegion.endTime)
  /\ moved = FALSE
  /\ lastEvent = DomEvent("none", FALSE)

\* The Auth0Context.Consumer render callback
Render(c) ==
  /\ c.isLoading \/ pendingUpdates < MaxPending
  /\ auth0Client' = c
  /\ pendingUpdates' = IF c.isLoading THEN pendingUpdates ELSE pendingUpdates + 1
  /\ ev' = Event("render", 0)
  /\ UNCHANGED <<deferredState, deferreds, currentState, isTokenRequested,
                 refreshTimeout, listeners, timers, nextHandle, rounds, cypress,
                 focuserVars>>

\* What the queued update(false) does, up to its await
UpdateTaskResult == update(Machine, FALSE)

\* The queued setTimeout(() => this.update(false), 0) runs
UpdateTask ==
  /\ pendingUpdates > 0
  /\ pendingUpdates' = pendingUpdates - 1
  /\ Install(UpdateTaskResult)
  /\ ev' = Event("update", 0)
  /\ UNCHANGED <<auth0Client, cypress, focuserVars>>

\* What the callback of timer t does, up to its await
TimerFireResult(t) == update([Machine EXCEPT !.timers = @ \ {t}], TRUE)

\* The refresh timer t fires: () => this.update(true)
TimerFire(t) ==
  /\ t \in timers
  /\ WithinBounds(TimerFireResult(t))
  /\ Install(TimerFireResult(t))
  /\ ev' = Event("refresh", 0)
  /\ UNCHANGED <<auth0Client, pendingUpdates, cypress, focuserVars>>

AddListener(l) ==
  /\ Len(listeners) < MaxListeners
  /\ Install(addListener(Machine, l))
  /\ ev' = Event("addListener", 0)
  /\ UNCHANGED <<auth0Client, pendingUpdates, cypress, focuserVars>>

RemoveListener(l) ==
  /\ Install(removeListener(Machine, l))
  /\ ev' = Event("removeListener", 0)
  /\ UNCHANGED <<auth0Client, pendingUpdates, cypress, focuserVars>>

Reset ==
  /\ Len(deferreds) < MaxDeferreds
  /\ Install(reset(Machine))
  /\ ev' = Event("reset", 0)
  /\ UNCHANGED <<auth0Client, pendingUpdates, cypress, focuserVars>>

\* What the round at rounds[i] does when its getAccessTokenSilently settles:
\* with a token, fetchToken returns it and update resumes; with an error that
\* needs the popup, getAccessTokenWithPopup is called; with another error,
\* fetchToken rethrows it into update.
SilentResult(i, isToken, outcome, now) ==
  IF ~isToken /\ needsPopup(outcome)
  THEN fetchTokenPopup(Machine, i)
  ELSE updateResume([Machine EXCEPT !.rounds = Without(@, i)],
                    isToken, outcome, rounds[i].deferred, now)

SilentSettles(i, isToken, outcome, now) ==
  /\ i \in 1..Len(rounds)
  /\ rounds[i].phase = "silent"
  /\ Install(SilentResult(i, isToken, outcome, now))
  /\ ev' = Event("silent", rounds[i].deferred)
  /\ UNCHANGED <<auth0Client, pendingUpdates, cypress, focuserVars>>

\* What the round at rounds[i] does when its getAccessTokenWithPopup settles:
\* fetchToken returns the token or throws the error into update.
PopupResult(i, isToken, outcome, now) ==
  updateResume([Machine EXCEPT !.rounds = Without(@, i)],
               isToken, outcome, rounds[i].deferred, now)

PopupSettles(i, isToken, outcome, now) ==
  /\ i \in 1..Len(rounds)
  /\ rounds[i].phase = "popup"
  /\ Install(PopupResult(i, isToken, outcome, now))
  /\ ev' = Event("popup", rounds[i].deferred)
  /\ UNCHANGED <<auth0Client, pendingUpdates, cypress, focuserVars>>

Next ==
  \/ \E c \in ClientValues : Render(c)
  \/ UpdateTask
  \/ \E t \in timers : TimerFire(t)
  \/ \E l \in Listeners : AddListener(l)
  \/ \E l \in Listeners : RemoveListener(l)
  \/ Reset
  \/ \E i \in 1..Len(rounds), now \in Nows, token \in Tokens :
       SilentSettles(i, TRUE, token, now)
  \/ \E i \in 1..Len(rounds), e \in ProviderErrors :
       SilentSettles(i, FALSE, e, 0)
  \/ \E i \in 1..Len(rounds), now \in Nows, token \in Tokens :
       PopupSettles(i, TRUE, token, now)
  \/ \E i \in 1..Len(rounds), e \in ProviderErrors :
       PopupSettles(i, FALSE, e, 0)

Spec == Init /\ [][Next]_vars

----------------------------------------------------------------------------
(* Focuser: the mousedown handlers of the rendered elements and the        *)
(* document handlers the effect registers while editMode is set.           *)

tokenVars == <<auth0Client, deferredState, deferreds, currentState,
               isTokenRequested, refreshTimeout, listeners, timers, nextHandle,
               pendingUpdates, rounds, cypress, ev>>

\* setEditMode(mode) called by a mousedown handler; an edit mode begins when
\* none was set
setEditMode(mode) ==
  /\ editMode' = mode
  /\ moved' = IF editMode = NoEditMode THEN FALSE ELSE moved
  /\ lastEvent' = DomEvent("mousedown", FALSE)
  /\ UNCHANGED <<didDragRef, displayedFocusRegion, tokenVars>>

\* onMouseDown of the draggable area
setEditModeToMove(dragOffset) == setEditMode(EditModeDrag(dragOffset))

\* onMouseDown of the right handle
setEditModeToResizeEnd == setEditMode(EditModeResize("resize-end"))

\* onMouseDown of the left handle
setEditModeToResizeStart == setEditMode(EditModeResize("resize-start"))

\* "click" on the document, capture phase
onDocumentClick ==
  /\ editMode # NoEditMode
  /\ editMode.type \in {"drag", "resize-end", "resize-start"}
  /\ lastEvent' = DomEvent("click", didDragRef)
  /\ didDragRef' = FALSE
  /\ editMode' = NoEditMode
  /\ UNCHANGED <<displayedFocusRegion, moved, tokenVars>>

\* The region the drag case of onDocumentMouseMove displays: the focus region
\* re-centred on mouseTime and kept within the zoom region
dragRegion(focusRegion, mouseTime) ==
  LET focusRegionDuration == focusRegion.endTime - focusRegion.beginTime
      newEndTime == mouseTime + focusRegionDuration \div 2
      newBeginTime == mouseTime - focusRegionDuration \div 2
  IN IF newBeginTime < zoomRegion.beginTime
     THEN Region(zoomRegion.beginTime,
                 newEndTime + (zoomRegion.beginTime - newBeginTime))
     ELSE IF newEndTime > zoomRegion.endTime
          THEN Region(newBeginTime - (newEndTime - zoomRegion.endTime),
                      zoomRegion.endTime)
          ELSE Region(newBeginTime, newEndTime)

\* What updateDisplayedFocusRegion is called with for a mousemove
movedRegion(focusRegion, mouseTime) ==
  CASE editMode.type = "drag" -> dragRegion(focusRegion, mouseTime)
    [] editMode.type = "resize-end" -> Region(focusRegion.beginTime, mouseTime)
    [] editMode.type = "resize-start" -> Region(mouseTime, focusRegion.endTime)

\* "mousemove" on the document: focusRegion is the store's focus region and
\* mouseTime what getTimeFromPosition returns for the mouse position
onDocumentMouseMove(movementX, focusRegion, mouseTime) ==
  /\ editMode # NoEditMode
  /\ lastEvent' = DomEvent("mousemove", TRUE)
  /\ IF movementX # 0
     THEN /\ didDragRef' = TRUE
          /\ moved' = TRUE
          /\ displayedFocusRegion' = movedRegion(focusRegion, mouseTime)
     ELSE UNCHANGED <<didDragRef, moved, displayedFocusRegion>>
  /\ UNCHANGED <<editMode, tokenVars>>

\* "mouseleave" on the document; withinWindow is the test on clientX/clientY
onDocumentMouseLeave(withinWindow) ==
  /\ editMode # NoEditMode
  /\ lastEvent' = DomEvent("mouseleave", FALSE)
  /\ editMode' = IF withinWindow THEN editMode ELSE NoEditMode
  /\ UNCHANGED <<didDragRef, displayedFocusRegion, moved, tokenVars>>

\* "mouseup" on the document
onDocumentMouseUp ==
  /\ editMode # NoEditMode
  /\ lastEvent' = DomEvent("mouseup", didDragRef)
  /\ UNCHANGED <<editMode, didDragRef, displayedFocusRegion, moved, tokenVars>>

NextFocuser ==
  \/ \E dragOffset \in DragOffsets : setEditModeToMove(dragOffset)
  \/ setEditModeToResizeEnd
  \/ setEditModeToResizeStart
  \/ onDocumentClick
  \/ \E movementX \in MovementXs, focusRegion \in FocusRegions,
        mouseTime \in MouseTimes :
       onDocumentMouseMove(movementX, focusRegion, mouseTime)
  \/ \E withinWindow \in BOOLEAN : onDocumentMouseLeave(withinWindow)
  \/ onDocumentMouseUp

SpecFocuser == Init /\ [][NextFocuser]_vars

----------------------------------------------------------------------------
(* What a handler can do from the current state *)

\* The calls of fn a handler made (positions in its log)
CallsOf(m, fn) == {k \in 1..Len(m.calls) : m.calls[k].fn = fn}

\* What a provider call can settle with: <<TRUE, token>> or <<FALSE, error>>
Outcomes == ({TRUE} \X Tokens) \cup ({FALSE} \X ProviderErrors)

\* The round at rounds[i] resuming with outcome o
RoundResult(i, o, now) ==
  IF rounds[i].phase = "silent" THEN SilentResult(i, o[1], o[2], now)
  ELSE PopupResult(i, o[1], o[2], now)

\* The update() calls that can run next
UpdateResults ==
  (IF pendingUpdates > 0 THEN {UpdateTaskResult} ELSE {})
    \cup {TimerFireResult(t) : t \in timers}

\* The rounds that can resume next
RoundResults ==
  {RoundResult(i, o, now) : i \in 1..Len(rounds), o \in Outcomes, now \in Nows}

ClientReady == auth0Client # NoClient /\ ~auth0Client.isLoading

\* The listener l was called with state after position k of m's log
Delivered(m, k, l, state) ==
  \E k2 \in CallsOf(m, "listener") :
    k2 > k /\ m.calls[k2].l = l /\ m.calls[k2].s = state

----------------------------------------------------------------------------
(* Claims *)

\* C1: resolve is invoked at most once on every Deferred Result ever created
\* (no second resolve on the same instance), whatever the interleaving.
C1_AtMostOneResolution ==
  \A d \in DOMAIN deferreds : deferreds[d].resolves <= 1

\* C2: single-flight. At most one fetch is ever started per Deferred Result;
\* once a fetch was requested for the live Deferred (no reset since), it has
\* exactly one fetch, and a further update(false) with the provider ready and
\* authenticated starts no round and calls nothing.
C2_SingleFlight ==
  /\ \A d \in DOMAIN deferreds : deferreds[d].fetches <= 1
  /\ \A d \in DOMAIN deferreds :
       Cardinality({i \in 1..Len(rounds) : rounds[i].deferred = d}) <= 1
  /\ (isTokenRequested /\ cypress = Absent) =>
       /\ deferreds[deferredState].fetches = 1
       /\ (ClientReady /\ auth0Client.isAuthenticated) =>
            /\ UpdateTaskResult.rounds = rounds
            /\ UpdateTaskResult.deferreds = deferreds
            /\ UpdateTaskResult.calls = <<>>

\* C2 witness: update(false) just ran for a Deferred whose one fetch had
\* already completed, and started nothing.
C2_Witness ==
  /\ ev.op = "update"
  /\ ClientReady /\ auth0Client.isAuthenticated
  /\ isTokenRequested
  /\ deferreds[deferredState].fetches = 1
  /\ deferreds[deferredState].resolves = 1
  /\ rounds = <<>>

\* C3: stale-round isolation. When a round whose captured Deferred is no longer
\* the live one resumes (with a token or an error), it arms no timer and
\* resolves no Deferred but the one it captured; the live one stays as it was.
C3_StaleRoundIsolation ==
  \A i \in 1..Len(rounds), o \in Outcomes, now \in Nows :
    rounds[i].deferred # deferredState =>
      LET m == RoundResult(i, o, now)
          d == rounds[i].deferred
      IN /\ CallsOf(m, "setTimeout") = {}
         /\ m.timers = timers
         /\ m.refreshTimeout = refreshTimeout
         /\ m.deferredState = deferredState
         /\ \A k \in DOMAIN deferreds : k # d => m.deferreds[k] = deferreds[k]
         /\ \A k \in CallsOf(m, "resolve") : m.calls[k].d = d

\* C3 witness: a round settled after a reset replaced the Deferred it captured,
\* and resolved the captured one with a token.
C3_Witness ==
  /\ ev.op \in {"silent", "popup"}
  /\ ev.round # deferredState
  /\ deferreds[ev.round].value.token = "tok_ok"
  /\ deferreds[deferredState].resolves = 0
  /\ timers = {}

\* C4: exception isolation. Whenever setState publishes a state, every
\* registered listener is called with it, also when one of them throws, and
\* the round's Deferred is resolved with it.
C4_ExceptionIsolation ==
  \A m \in UpdateResults \cup RoundResults :
    \A k \in CallsOf(m, "setState") :
      /\ \A j \in 1..Len(listeners) :
           Delivered(m, k, listeners[j], m.calls[k].s)
      /\ \E k2 \in CallsOf(m, "resolve") :
           k2 > k /\ m.calls[k2].d = m.calls[k].d /\ m.calls[k2].s = m.calls[k].s

\* A token that cannot be decoded, or lacks a numeric expiry or the
\* user-identifier claim
Malformed(token) ==
  \/ ~jwt_decode(token).decodes
  \/ ~jwt_decode(token).expIsNumber
  \/ jwt_decode(token).userId = "undefined"

\* C5: malformed token. A round whose fetch returns a malformed token ends
\* with an error state: currentState is an error state, the round's Deferred
\* resolves to it, and no timer is armed.
C5_MalformedToken ==
  \A i \in 1..Len(rounds), now \in Nows, token \in Tokens :
    Malformed(token) =>
      LET m == RoundResult(i, <<TRUE, token>>, now)
      IN /\ m.currentState.error # Absent
         /\ m.currentState.token = Absent
         /\ m.deferreds[rounds[i].deferred].value = m.currentState
         /\ m.timers = timers
         /\ CallsOf(m, "setTimeout") = {}

\* The state a round publishes first for the outcome o of its fetch
Published(o) ==
  IF ~o[1] THEN TokenState(Absent, Absent, o[2])
  ELSE IF jwt_decode(o[2]).decodes
       THEN TokenState(o[2], jwt_decode(o[2]).userId, Absent)
       ELSE TokenState(Absent, Absent, "InvalidTokenError")

\* C6: fallback policy. A round starts with the silent fetch and no popup; the
\* popup is called exactly when the silent fetch failed with login_required or
\* consent_required, and then nothing is published until the popup settles,
\* whose outcome is what the round publishes; any other silent outcome is
\* published with no popup call.
C6_FallbackPolicy ==
  /\ \A m \in UpdateResults :
       /\ CallsOf(m, "getAccessTokenWithPopup") = {}
       /\ Len(m.rounds) > Len(rounds) =>
            /\ m.rounds[Len(m.rounds)].phase = "silent"
            /\ Cardinality(CallsOf(m, "getAccessTokenSilently")) = 1
  /\ \A i \in 1..Len(rounds), o \in Outcomes, now \in Nows :
       LET m == RoundResult(i, o, now)
           d == rounds[i].deferred
       IN IF rounds[i].phase = "silent" /\ ~o[1]
             /\ o[2] \in {"login_required", "consent_required"}
          THEN /\ m.calls = <<CallRec("getAccessTokenWithPopup", "", d, NoState,
                                      IF rounds[i].refresh THEN 1 ELSE 0)>>
               /\ m.rounds = [rounds EXCEPT ![i].phase = "popup"]
               /\ m.currentState = currentState
          ELSE /\ CallsOf(m, "getAccessTokenWithPopup") = {}
               /\ CallsOf(m, "getAccessTokenSilently") = {}
               /\ m.rounds = Without(rounds, i)
               /\ m.calls # <<>>
               /\ m.calls[1] = CallRec("setState", "", d, Published(o), 0)

\* C6 witness: a popup fetch settled with a token, which was published.
C6_Witness ==
  /\ ev.op = "popup"
  /\ currentState.token = "tok_ok"
  /\ deferreds[ev.round].value = currentState

\* C7: replay-on-join. addListener(l) calls l exactly once with the current
\* state when there is one, before l is registered (so before any later
\* publish reaches it), and calls nothing when there is none.
C7_ReplayOnJoin ==
  \A l \in Listeners :
    LET m == addListener(Machine, l)
    IN /\ IF currentState # NoState
          THEN /\ m.calls # <<>>
               /\ m.calls[1] = CallRec("listener", l, 0, currentState, 0)
               /\ Cardinality({k \in CallsOf(m, "listener") : m.calls[k].l = l}) = 1
               /\ CallsOf(m, "listener") = 1..Len(m.calls)
          ELSE m.calls = <<>>
       /\ m.currentState = currentState
       /\ m.thrown = NoError =>
            m.listeners # <<>> /\ m.listeners[Len(m.listeners)] = l

\* C7 witness: a listener was added while a state existed.
C7_Witness ==
  /\ ev.op = "addListener"
  /\ currentState # NoState
  /\ listeners # <<>>

\* C8: unauthenticated provider. An update that runs with the provider ready
\* and unauthenticated publishes the empty state, leaves the live Deferred
\* resolved to the empty state, and starts no provider fetch.
C8_Unauthenticated ==
  (ClientReady /\ ~auth0Client.isAuthenticated) =>
    \A m \in UpdateResults :
      /\ m.currentState = EmptyState
      /\ m.deferreds[deferredState].value = EmptyState
      /\ m.rounds = rounds
      /\ CallsOf(m, "getAccessTokenSilently") = {}
      /\ CallsOf(m, "getAccessTokenWithPopup") = {}

\* C9: reset() postcondition. After reset() the live Deferred is a new,
\* unresolved instance, the fetch-requested flag is false, the handle is
\* cleared and no refresh timer is pending.
C9_ResetPostcondition ==
  LET m == reset(Machine)
  IN /\ m.deferredState \notin DOMAIN deferreds
     /\ m.deferredState \in DOMAIN m.deferreds
     /\ m.deferreds[m.deferredState].value = NoState
     /\ m.deferreds[m.deferredState].resolves = 0
     /\ ~m.isTokenRequested
     /\ m.refreshTimeout = NoHandle
     /\ m.timers = {}

\* C9 witness: reset() ran after a token was published and its timer armed.
C9_Witness ==
  /\ ev.op = "reset"
  /\ nextHandle > 1
  /\ currentState.token = "tok_ok"
  /\ getToken = NoState
  /\ ~isTokenRequested /\ refreshTimeout = NoHandle /\ timers = {}

\* C10: reset() frame. reset() calls no listener and leaves the listeners and
\* the Deferreds created before unchanged; a listener registered before the
\* reset receives the state published after it.
C10_ResetFrame ==
  LET m == reset(Machine)
  IN /\ CallsOf(m, "listener") = {}
     /\ m.listeners = listeners
     /\ \A d \in DOMAIN deferreds : m.deferreds[d] = deferreds[d]
     /\ (ClientReady /\ ~auth0Client.isAuthenticated /\ pendingUpdates > 0) =>
          \A j \in 1..Len(listeners) :
            Delivered(update(m, FALSE), 0, listeners[j], EmptyState)

\* A round at rounds[i] whose provider call fails with e for good: the popup
\* failed, or the silent fetch failed with an error that calls no popup
FetchFails(i, e) ==
  rounds[i].phase = "popup" \/ e \notin {"login_required", "consent_required"}

\* C11: getToken() never yields a failure. Every fetch failure of a round
\* leaves that round's Deferred resolved to a state whose error is present and
\* whose token is absent (the Deferred is resolved, never rejected or left
\* pending).
C11_FailureIsResolvedError ==
  \A i \in 1..Len(rounds), e \in ProviderErrors, now \in Nows :
    FetchFails(i, e) =>
      LET m == RoundResult(i, <<FALSE, e>>, now)
          v == m.deferreds[rounds[i].deferred].value
      IN /\ v # NoState
         /\ v.error # Absent
         /\ v.token = Absent
         /\ m.thrown = NoError

\* C12: publish delivery. A setState calls every listener registered at the
\* time of the publish exactly once with the state, in subscription order,
\* also when a listener calls removeListener from inside its callback.
\* (Stated for the first publish of a handler and for listeners that do not
\* throw.)
C12_PublishDelivery ==
  \A m \in UpdateResults \cup RoundResults :
    (CallsOf(m, "setState") # {} /\ Range(listeners) \cap Throwing = {}) =>
      LET k == CHOOSE c \in CallsOf(m, "setState") :
                 \A c2 \in CallsOf(m, "setState") : c <= c2
          n == Len(listeners)
      IN /\ Len(m.calls) >= k + n
         /\ \A j \in 1..n :
              m.calls[k + j] = CallRec("listener", listeners[j], 0, m.calls[k].s, 0)
         /\ Len(m.calls) > k + n => m.calls[k + n + 1].fn # "listener"

\* C13: refresh timing. A timer armed for a token with expiry E (s) at time
\* now (ms) has the delay max(0, (E - 60) * 1000 - now): never negative, and 0
\* when the token expires within 60 s or has expired.
C13_RefreshTiming ==
  /\ \A t \in timers : t.delay >= 0
  /\ \A i \in 1..Len(rounds), now \in Nows, token \in Tokens :
       LET m == RoundResult(i, <<TRUE, token>>, now)
           E == jwt_decode(token).exp
       IN \A k \in CallsOf(m, "setTimeout") :
            /\ m.calls[k].n = IF (E - 60) * 1000 - now > 0
                              THEN (E - 60) * 1000 - now ELSE 0
            /\ m.calls[k].n >= 0
            /\ (E * 1000 - now <= 60 * 1000) => m.calls[k].n = 0
            /\ [handle |-> m.refreshTimeout, delay |-> m.calls[k].n] \in m.timers
            /\ jwt_decode(token).expIsNumber

\* C13 witness: a timer was armed for a token inside its refresh margin, with
\* delay 0.
C13_Witness ==
  /\ ev.op \in {"silent", "popup"}
  /\ currentState.token = "tok_ok"
  /\ timers # {}
  /\ \A t \in timers : t.delay = 0 /\ t.handle = refreshTimeout

\* C14: no automatic retry. A round that ends in a fetch error arms no timer;
\* if its Deferred is still the live one, the request flag stays set, no timer
\* is pending (so no update(true) is due) and an update(false) starts no
\* fetch: only reset() or update(true) leads to another fetch.
C14_NoAutomaticRetry ==
  \A i \in 1..Len(rounds), e \in ProviderErrors, now \in Nows :
    FetchFails(i, e) =>
      LET m == RoundResult(i, <<FALSE, e>>, now)
      IN /\ CallsOf(m, "setTimeout") = {}
         /\ m.timers = timers
         /\ m.refreshTimeout = refreshTimeout
         /\ CallsOf(m, "getAccessTokenSilently") = {}
         /\ CallsOf(m, "getAccessTokenWithPopup") = {}
         /\ rounds[i].deferred = deferredState =>
              /\ m.isTokenRequested
              /\ m.timers = {}
              /\ update(m, FALSE).rounds = m.rounds
              /\ CallsOf(update(m, FALSE), "getAccessTokenSilently") = {}

\* C14 witness: the live round ended in a fetch error and nothing is pending.
C14_Witness ==
  /\ ev.op \in {"silent", "popup"}
  /\ ev.round = deferredState
  /\ currentState.error = "other_error"
  /\ getToken = currentState
  /\ isTokenRequested
  /\ rounds = <<>> /\ timers = {}

\* C15: single armed timer. At most one refresh timer is pending, and it is
\* the one refreshTimeout names; when a round arms a timer, none was pending.
C15_SingleArmedTimer ==
  /\ Cardinality(timers) <= 1
  /\ \A t \in timers : t.handle = refreshTimeout
  /\ \A m \in RoundResults :
       CallsOf(m, "setTimeout") # {} =>
         /\ timers = {}
         /\ Cardinality(CallsOf(m, "setTimeout")) = 1
         /\ Cardinality(m.timers) = 1

\* C15 witness: a second timer was armed after the first one was cancelled or
\* had fired, and it is the only one pending.
C15_Witness ==
  /\ ev.op \in {"silent", "popup"}
  /\ nextHandle > 2
  /\ Cardinality(timers) = 1
  /\ \A t \in timers : t.handle = nextHandle - 1

\* C16: refresh cycle. Every firing of the armed refresh timer starts a fresh
\* provider fetch with refresh = true (ignoreCache), and a refresh round that
\* is still live and succeeds arms the next timer.
C16_RefreshCycle ==
  /\ \A t \in timers :
       LET m == TimerFireResult(t)
       IN /\ Len(m.rounds) = Len(rounds) + 1
          /\ m.rounds[Len(m.rounds)].refresh
          /\ \E k \in CallsOf(m, "getAccessTokenSilently") : m.calls[k].n = 1
  /\ \A i \in 1..Len(rounds), now \in Nows :
       (rounds[i].refresh /\ rounds[i].deferred = deferredState) =>
         LET m == RoundResult(i, <<TRUE, "tok_ok">>, now)
         IN /\ CallsOf(m, "setTimeout") # {}
            /\ m.timers # {}

\* C17: refresh supersedes. update(true) running with the provider ready and
\* authenticated while a fetch was requested for the live Deferred resets
\* first: its round captures a Deferred created by this call, still
\* unresolved, and every Deferred that existed before is left as it was.  A
\* round that resumes resolves only the Deferred it captured.
C17_RefreshSupersedes ==
  /\ (ClientReady /\ auth0Client.isAuthenticated /\ isTokenRequested) =>
       \A t \in timers :
         LET m == TimerFireResult(t)
         IN /\ m.deferredState \notin DOMAIN deferreds
            /\ \A d \in DOMAIN deferreds : m.deferreds[d] = deferreds[d]
            /\ m.deferreds[m.deferredState].value = NoState
            /\ m.deferreds[m.deferredState].resolves = 0
            /\ CallsOf(m, "resolve") = {}
            /\ Len(m.rounds) = Len(rounds) + 1
            /\ m.rounds[Len(m.rounds)].deferred = m.deferredState
            /\ m.rounds[Len(m.rounds)].refresh
            /\ \A i \in 1..Len(rounds) : m.rounds[i] = rounds[i]
  /\ \A i \in 1..Len(rounds), o \in Outcomes, now \in Nows :
       LET m == RoundResult(i, o, now)
       IN /\ \A k \in CallsOf(m, "resolve") : m.calls[k].d = rounds[i].deferred
          /\ \A d \in DOMAIN deferreds :
               d # rounds[i].deferred => m.deferreds[d] = deferreds[d]

\* C17 witness: the refresh timer fired after the first Deferred was resolved
\* with a token; the refresh round is in flight on a new, unresolved Deferred.
C17_Witness ==
  /\ ev.op = "refresh"
  /\ Len(rounds) = 1
  /\ rounds[1].refresh
  /\ rounds[1].deferred = deferredState
  /\ deferredState = 2
  /\ deferreds[1].value.token = "tok_ok"
  /\ deferreds[1].resolves = 1
  /\ deferreds[2].value = NoState
  /\ deferreds[2].resolves = 0
  /\ deferreds[2].fetches = 1

\* C18: successful publish shape. Every published state with a token carries
\* the claims decoded from it, and a round that is still live and received a
\* token with a numeric expiry arms the refresh timer.
C18_SuccessfulPublishShape ==
  /\ (currentState # NoState /\ currentState.token # Absent) =>
       currentState.claims # Absent
  /\ \A i \in 1..Len(rounds), now \in Nows :
       rounds[i].deferred = deferredState =>
         LET m == RoundResult(i, <<TRUE, "tok_ok">>, now)
         IN /\ CallsOf(m, "setTimeout") # {}
            /\ m.refreshTimeout # NoHandle
            /\ m.timers # {}

\* C19: agreement of the two read paths. Whenever the live Deferred is
\* resolved, the value getToken() yields equals currentState.
C19_ReadPathsAgree ==
  getToken # NoState => getToken = currentState

\* C20: Focuser click pass-through. A click that ends an edit mode is stopped
\* if and only if a mousemove with non-zero movementX was handled during that
\* edit mode, and the click always clears the edit mode.
C20_ClickPassThrough ==
  lastEvent.type = "click" =>
    /\ lastEvent.stopped <=> moved
    /\ editMode = NoEditMode

====
